---------------------------- MODULE Spec2Model ----------------------------
(***************************************************************************)
(* A model of web_snatcher/main.py: the URL validator, the output-name     *)
(* generator, the wkhtmltopdf invoker and the html_to_pdf command handler. *)
(*                                                                         *)
(* Text is a sequence of one-character strings.  Three specifications:     *)
(*   PureSpec  applies validate_url and generate_output_name to every      *)
(*             string of a bounded family;                                 *)
(*   Spec      runs one invocation of html_to_pdf, the child renderer and  *)
(*             its two pipes included;                                     *)
(*   FairSpec  is Spec with the scheduler's fairness, for termination.     *)
(***************************************************************************)
EXTENDS Integers, Sequences, FiniteSets, TLC

VARIABLES
    url,          \* the url argument
    output_opt,   \* the --output option, None when absent
    debug,        \* the --debug flag
    wk_present,   \* whether a wkhtmltopdf binary is on the search path
    pc,           \* position of the handler
    valid,        \* result of validate_url(url)
    now,          \* what datetime.now() returned
    output,       \* the local variable output of html_to_pdf
    gen_called,   \* whether generate_output_name was called
    printed,      \* what console.print has shown, oldest first
    log,          \* the records the logger has emitted, oldest first
    exc,          \* str(e) of the exception the generic handler caught
    exit_code,    \* exit status of the tool, NoCode while running
    uncaught,     \* whether an exception left html_to_pdf other than typer.Exit
    launched,     \* number of renderer processes created
    cmd,          \* argument vector of the renderer process
    child,        \* "none", "running" or "exited"
    child_out,    \* what the child has still to write to its stdout
    child_err,    \* what the child has still to write to its stderr
    child_status, \* exit status the child ends with
    pipe_out,     \* bytes in the stdout pipe
    pipe_err,     \* bytes in the stderr pipe
    buf_out,      \* what communicate() has read from stdout so far
    buf_err,      \* what communicate() has read from stderr so far
    out_eof,      \* communicate() saw end of file on stdout
    err_eof,      \* communicate() saw end of file on stderr
    returncode,   \* process.returncode, NoCode until the child is reaped
    stdout,       \* first result of communicate()
    stderr        \* second result of communicate()

vars == <<url, output_opt, debug, wk_present, pc, valid, now, output,
          gen_called, printed, log, exc, exit_code, uncaught, launched, cmd,
          child, child_out, child_err, child_status, pipe_out, pipe_err,
          buf_out, buf_err, out_eof, err_eof, returncode, stdout, stderr>>

(***************************************************************************)
(* Bounds of the model.                                                    *)
(***************************************************************************)
\* longest tail appended to a URL head in PureSpec
MaxTail == 4
\* capacity of each pipe between the child and the tool
PipeCap == 2
\* largest exit status the child ends with
MaxExit == 2

(***************************************************************************)
(* Characters and text.                                                    *)
(***************************************************************************)
None == <<"None">>
NoCode == 0 - 1

LowerSeq == <<"a","b","c","d","e","f","g","h","i","j","k","l","m",
              "n","o","p","q","r","s","t","u","v","w","x","y","z">>
UpperSeq == <<"A","B","C","D","E","F","G","H","I","J","K","L","M",
              "N","O","P","Q","R","S","T","U","V","W","X","Y","Z">>
DigitSeq == <<"0","1","2","3","4","5","6","7","8","9">>

Range(f) == {f[i] : i \in DOMAIN f}
AsciiLower == Range(LowerSeq)
AsciiUpper == Range(UpperSeq)
AsciiAlpha == AsciiLower \cup AsciiUpper
Digits == Range(DigitSeq)
Alnum == AsciiAlpha \cup Digits

\* str.lower() on one character
LowerChar(c) ==
    IF c \in AsciiUpper
    THEN LowerSeq[CHOOSE i \in 1..26 : UpperSeq[i] = c]
    ELSE c
Lower(s) == [i \in 1..Len(s) |-> LowerChar(s[i])]

\* str.find(c) and str.rfind(c), 1-based, 0 when absent
Find(s, c) ==
    IF \E i \in 1..Len(s) : s[i] = c
    THEN CHOOSE i \in 1..Len(s) : s[i] = c /\ \A j \in 1..(i-1) : s[j] # c
    ELSE 0
RFind(s, c) ==
    IF \E i \in 1..Len(s) : s[i] = c
    THEN CHOOSE i \in 1..Len(s) : s[i] = c /\ \A j \in (i+1)..Len(s) : s[j] # c
    ELSE 0
\* s[i:] with a 1-based i
From(s, i) == SubSeq(s, i, Len(s))
Contains(s, c) == \E i \in 1..Len(s) : s[i] = c
EndsWith(s, suffix) ==
    /\ Len(s) >= Len(suffix)
    /\ SubSeq(s, Len(s) - Len(suffix) + 1, Len(s)) = suffix
StartsWith(s, prefix) ==
    /\ Len(s) >= Len(prefix)
    /\ SubSeq(s, 1, Len(prefix)) = prefix

(***************************************************************************)
(* urllib.parse.urlparse as validate_url and generate_output_name use it:  *)
(* scheme, netloc and path of the result, or ValueError.  The texts of     *)
(* the model hold no white space, control character or ";", so the         *)
(* stripping of those and the params split leave them as they are.         *)
(***************************************************************************)
scheme_chars == Alnum \cup {"+", "-", "."}

\* first index >= 3 of "/", "?" or "#" in s, Len(s)+1 when there is none
NetlocEnd(s) ==
    IF \E i \in 3..Len(s) : s[i] \in {"/", "?", "#"}
    THEN CHOOSE i \in 3..Len(s) :
            /\ s[i] \in {"/", "?", "#"}
            /\ \A j \in 3..(i-1) : s[j] \notin {"/", "?", "#"}
    ELSE Len(s) + 1

\* s up to the first c, all of s when c is absent
Before(s, c) == IF Find(s, c) = 0 THEN s ELSE SubSeq(s, 1, Find(s, c) - 1)

urlparse(value) ==
    LET i == Find(value, ":")
        hasScheme == /\ i > 1
                     /\ value[1] \in AsciiAlpha
                     /\ \A j \in 1..(i-1) : value[j] \in scheme_chars
        scheme == IF hasScheme THEN Lower(SubSeq(value, 1, i-1)) ELSE <<>>
        rest1 == IF hasScheme THEN From(value, i+1) ELSE value
        hasNetloc == StartsWith(rest1, <<"/", "/">>)
        netloc == IF hasNetloc THEN SubSeq(rest1, 3, NetlocEnd(rest1) - 1)
                  ELSE <<>>
        rest2 == IF hasNetloc THEN From(rest1, NetlocEnd(rest1)) ELSE rest1
        \* the brackets of an IPv6 host must pair
        bad == hasNetloc /\ (Contains(netloc, "[") # Contains(netloc, "]"))
        path == Before(Before(rest2, "#"), "?")
    IN  [error |-> bad, scheme |-> scheme, netloc |-> netloc, path |-> path]

\* validate_url with "any" where the code has "all"
validate_url_any(value) ==
    LET result == urlparse(value)
    IN  IF result.error THEN FALSE
        ELSE result.scheme # <<>> \/ result.netloc # <<>>

validate_url(value) ==
    LET result == urlparse(value)
    IN  IF result.error THEN FALSE
        ELSE result.scheme # <<>> /\ result.netloc # <<>>

(***************************************************************************)
(* generate_output_name and what it calls.                                 *)
(***************************************************************************)
RECURSIVE split(_, _)
\* str.split(sep) for a one-character sep
split(s, sep) ==
    IF Find(s, sep) = 0 THEN <<s>>
    ELSE <<SubSeq(s, 1, Find(s, sep) - 1)>> \o split(From(s, Find(s, sep) + 1), sep)

\* os.path.splitext(p)[0]: the last dot starts the extension unless only
\* dots precede it in the file name
splitext_root(p) ==
    LET sepIndex == RFind(p, "/")
        dotIndex == RFind(p, ".")
    IN  IF dotIndex > sepIndex
           /\ \E k \in (sepIndex+1)..(dotIndex-1) : p[k] # "."
        THEN SubSeq(p, 1, dotIndex - 1)
        ELSE p

\* \w of a Python str pattern, on the ASCII texts of the model
IsWord(c) == c \in Alnum \cup {"_"}

RECURSIVE DropNonWord(_)
DropNonWord(s) ==
    IF s = <<>> \/ IsWord(Head(s)) THEN s ELSE DropNonWord(Tail(s))

RECURSIVE re_sub_each(_)
\* re.sub(r"\W", "_", s): the pattern without its "+"
re_sub_each(s) ==
    IF s = <<>> THEN <<>>
    ELSE <<IF IsWord(Head(s)) THEN Head(s) ELSE "_">> \o re_sub_each(Tail(s))

RECURSIVE re_sub(_)
\* re.sub(r"\W+", "_", s)
re_sub(s) ==
    IF s = <<>> THEN <<>>
    ELSE IF IsWord(Head(s)) THEN <<Head(s)>> \o re_sub(Tail(s))
    ELSE <<"_">> \o re_sub(DropNonWord(Tail(s)))

\* two decimal digits of n, zero padded
Pad2(n) == <<DigitSeq[((n \div 10) % 10) + 1], DigitSeq[(n % 10) + 1]>>
\* datetime.strftime("%Y%m%d_%H%M%S")
strftime(t) ==
    Pad2(t.Y \div 100) \o Pad2(t.Y % 100) \o Pad2(t.m) \o Pad2(t.d)
    \o <<"_">> \o Pad2(t.H) \o Pad2(t.M) \o Pad2(t.S)

\* the part list without the filter of empty parts
path_parts_unfiltered(url_) == split(urlparse(url_).path, "/")

\* lines 46-51: the non-empty parts of the URL's path
path_parts(url_) ==
    SelectSeq(split(urlparse(url_).path, "/"), LAMBDA part : part # <<>>)

\* lines 53-64: the base name
base_name(url_) ==
    LET parts == path_parts(url_)
        chosen == IF parts # <<>> THEN parts[Len(parts)]
                  ELSE <<"i", "n", "d", "e", "x">>
    IN  re_sub(splitext_root(chosen))

\* the name without its ".pdf"
generate_output_name_noext(url_, t) ==
    urlparse(url_).netloc \o <<"_">> \o base_name(url_) \o <<"_">> \o strftime(t)

generate_output_name(url_, t) ==
    urlparse(url_).netloc \o <<"_">> \o base_name(url_) \o <<"_">>
    \o strftime(t) \o <<".", "p", "d", "f">>


(***************************************************************************)
(* The inputs of PureSpec: a head that fixes how the URL starts, followed  *)
(* by every text of at most MaxTail characters over TailSigma.             *)
(***************************************************************************)
TailSigma == {"a", "/", ".", "_", "-", "?", ":"}
Texts(S, n) == UNION {[1..k -> S] : k \in 0..n}
Heads == { <<>>,
           <<"a", ":", "/", "/", "b">>,
           <<"A", "+", ":", "/", "/", "b", "/">>,
           <<"/", "/", "b">>,
           <<"a", ":", "/", "/", "[">>,
           <<"1", "a", ":", "/", "/", "b">> }
PureInputs == {h \o t : h \in Heads, t \in Texts(TailSigma, MaxTail)}

\* the values datetime.now() is drawn from
Times == { [Y |-> 2024, m |-> 1, d |-> 5, H |-> 0, M |-> 7, S |-> 9],
           [Y |-> 2025, m |-> 12, d |-> 31, H |-> 23, M |-> 59, S |-> 59] }

\* the state of an invocation that has not started
Idle ==
    /\ valid = FALSE
    /\ now = CHOOSE t \in Times : t.Y = 2024
    /\ output = None
    /\ gen_called = FALSE
    /\ printed = <<>>
    /\ log = <<>>
    /\ exc = <<>>
    /\ exit_code = NoCode
    /\ uncaught = FALSE
    /\ launched = 0
    /\ cmd = <<>>
    /\ child = "none"
    /\ child_out = <<>>
    /\ child_err = <<>>
    /\ child_status = 0
    /\ pipe_out = <<>>
    /\ pipe_err = <<>>
    /\ buf_out = <<>>
    /\ buf_err = <<>>
    /\ out_eof = FALSE
    /\ err_eof = FALSE
    /\ returncode = NoCode
    /\ stdout = <<>>
    /\ stderr = <<>>

procVars == <<launched, cmd, child, child_out, child_err, child_status,
              pipe_out, pipe_err, buf_out, buf_err, out_eof, err_eof,
              returncode, stdout, stderr>>
argVars == <<url, output_opt, debug, wk_present>>

PureInit ==
    /\ url \in PureInputs
    /\ output_opt = None
    /\ debug = FALSE
    /\ wk_present = TRUE
    /\ pc = "pure_start"
    /\ Idle

\* validate_url(url)
PureValidate ==
    /\ pc = "pure_start"
    /\ valid' = validate_url(url)
    /\ pc' = "pure_validated"
    /\ UNCHANGED <<argVars, procVars, now, output, gen_called, printed, log,
                   exc, exit_code, uncaught>>

\* generate_output_name(url) on a URL validate_url accepted
PureGenerate ==
    /\ pc = "pure_validated"
    /\ valid
    /\ \E t \in Times :
        /\ now' = t
        /\ output' = generate_output_name(url, t)
    /\ gen_called' = TRUE
    /\ pc' = "pure_generated"
    /\ UNCHANGED <<argVars, procVars, valid, printed, log, exc, exit_code,
                   uncaught>>

PureNext == PureValidate \/ PureGenerate
PureSpec == PureInit /\ [][PureNext]_vars


(***************************************************************************)
(* rich's console markup, as console.print applies it to the f-strings of  *)
(* html_to_pdf.  A tag is "[", a first character in a-z # / @, then        *)
(* characters other than "[" up to the nearest "]".  A closing tag that    *)
(* names no open tag, or "[/]" with nothing open, raises MarkupError; the  *)
(* literal words of the f-strings hold no "[" and are left out.            *)
(***************************************************************************)
TagStart == AsciiLower \cup {"#", "/", "@"}

\* index of the "]" that ends a tag opened at i, 0 when i opens no tag
TagEnd(text, i) ==
    IF /\ text[i] = "["
       /\ i + 1 <= Len(text)
       /\ text[i+1] \in TagStart
       /\ \E j \in (i+2)..Len(text) : text[j] \in {"[", "]"}
    THEN LET j == CHOOSE j \in (i+2)..Len(text) :
                     /\ text[j] \in {"[", "]"}
                     /\ \A k \in (i+2)..(j-1) : text[k] \notin {"[", "]"}
         IN  IF text[j] = "]" THEN j ELSE 0
    ELSE 0

RECURSIVE ParseTags(_, _)
\* the tags of text from index i on, in order, each without its brackets
ParseTags(text, i) ==
    IF i > Len(text) THEN <<>>
    ELSE IF TagEnd(text, i) = 0 THEN ParseTags(text, i + 1)
    ELSE <<SubSeq(text, i + 1, TagEnd(text, i) - 1)>>
         \o ParseTags(text, TagEnd(text, i) + 1)

\* the stack without its topmost entry equal to name
PopStyle(stack, name) ==
    LET k == CHOOSE k \in 1..Len(stack) :
                stack[k] = name /\ \A j \in (k+1)..Len(stack) : stack[j] # name
    IN  SubSeq(stack, 1, k - 1) \o SubSeq(stack, k + 1, Len(stack))

\* str(MarkupError): the quoted tag; its other words hold no bracket
MarkupErrorText(tag) == <<"'", "[">> \o tag \o <<"]", "'">>

RECURSIVE RenderTags(_, _)
\* <<>> when the tags render, the text of the MarkupError otherwise
RenderTags(tags, stack) ==
    IF tags = <<>> THEN <<>>
    ELSE LET tag == Head(tags)
         IN  IF tag[1] = "/"
             THEN IF Len(tag) > 1
                  THEN IF \E k \in 1..Len(stack) : stack[k] = Lower(Tail(tag))
                       THEN RenderTags(Tail(tags), PopStyle(stack, Lower(Tail(tag))))
                       ELSE MarkupErrorText(tag)
                  ELSE IF stack # <<>>
                       THEN RenderTags(Tail(tags), SubSeq(stack, 1, Len(stack) - 1))
                       ELSE MarkupErrorText(tag)
             ELSE RenderTags(Tail(tags), Append(stack, Lower(tag)))

\* console.print(markup): <<>> when it prints, else the MarkupError's text
console_print(markup) == RenderTags(ParseTags(markup, 1), <<>>)

Open(style) == <<"[">> \o style \o <<"]">>
Close(style) == <<"[", "/">> \o style \o <<"]">>
BoldRed == <<"b", "o", "l", "d", " ", "r", "e", "d">>
BoldBlue == <<"b", "o", "l", "d", " ", "b", "l", "u", "e">>
BoldGreen == <<"b", "o", "l", "d", " ", "g", "r", "e", "e", "n">>
Yellow == <<"y", "e", "l", "l", "o", "w">>
Cyan == <<"c", "y", "a", "n">>

\* line 152
InvalidUrlMarkup(u) ==
    Open(BoldRed) \o Close(BoldRed) \o Open(Yellow) \o u \o Close(Yellow)
\* line 159
InfoMarkup(o) ==
    Open(BoldBlue) \o Close(BoldBlue) \o Open(Cyan) \o o \o Close(Cyan)
\* line 165
SuccessMarkup(o) ==
    Open(BoldGreen) \o Close(BoldGreen) \o Open(Cyan) \o o \o Close(Cyan)
\* line 168
WkErrorMarkup(text) == Open(BoldRed) \o Close(BoldRed) \o text
\* line 172
UnexpectedMarkup(text) == Open(BoldRed) \o Close(BoldRed) \o text

\* str(FileNotFoundError) of a missing binary starts "[Errno 2]"
ErrnoText == <<"[", "E", "r", "r", "n", "o", " ", "2", "]">>

(***************************************************************************)
(* Logging and the renderer's command line.                                *)
(***************************************************************************)
\* the logger emits a record unless it is a DEBUG record and --debug is off
Emit(records, level, text) ==
    IF level = "DEBUG" /\ ~debug THEN records
    ELSE Append(records, [level |-> level, text |-> text])

Whitespace == {" ", "\n", "\t", "\r"}
RECURSIVE LStrip(_)
LStrip(s) == IF s # <<>> /\ Head(s) \in Whitespace THEN LStrip(Tail(s)) ELSE s
RECURSIVE RStrip(_)
RStrip(s) ==
    IF s # <<>> /\ s[Len(s)] \in Whitespace
    THEN RStrip(SubSeq(s, 1, Len(s) - 1)) ELSE s
\* str.strip()
Strip(s) == RStrip(LStrip(s))

RECURSIVE Join(_)
\* " ".join(args)
Join(args) ==
    IF args = <<>> THEN <<>>
    ELSE IF Len(args) = 1 THEN args[1]
    ELSE args[1] \o <<" ">> \o Join(Tail(args))

\* lines 96-112: the arguments before the URL
FixedArgs ==
    << <<"w", "k", "h", "t", "m", "l", "t", "o", "p", "d", "f">>,
       <<"-", "-", "p", "a", "g", "e", "-", "s", "i", "z", "e">>,
       <<"A", "4">>,
       <<"-", "-", "m", "a", "r", "g", "i", "n", "-", "t", "o", "p">>,
       <<"0", ".", "7", "5", "i", "n">>,
       <<"-", "-", "m", "a", "r", "g", "i", "n", "-", "r", "i", "g", "h",
          "t">>,
       <<"0", ".", "7", "5", "i", "n">>,
       <<"-", "-", "m", "a", "r", "g", "i", "n", "-", "b", "o", "t", "t",
          "o", "m">>,
       <<"0", ".", "7", "5", "i", "n">>,
       <<"-", "-", "m", "a", "r", "g", "i", "n", "-", "l", "e", "f",
          "t">>,
       <<"0", ".", "7", "5", "i", "n">>,
       <<"-", "-", "e", "n", "c", "o", "d", "i", "n", "g">>,
       <<"U", "T", "F", "-", "8">>,
       <<"-", "-", "n", "o", "-", "s", "t", "o", "p", "-", "s", "l", "o",
          "w", "-", "s", "c", "r", "i", "p", "t", "s">>,
       <<"-", "-", "j", "a", "v", "a", "s", "c", "r", "i", "p", "t", "-",
          "d", "e", "l", "a", "y">>,
       <<"1", "0", "0", "0">> >>
\* lines 96-115
BuildCmd(u, o) == FixedArgs \o <<u, o>>

Last(s) == s[Len(s)]

(***************************************************************************)
(* One invocation of html_to_pdf.                                          *)
(***************************************************************************)
Urls == { <<"h", "t", "t", "p", ":", "/", "/", "a", "/", "b", ".", "c">>,
          <<"h", "t", "t", "p", ":", "/", "/", "a">>,
          <<"a">>,
          <<"[", "/", "x", "]">>,
          <<"h", "t", "t", "p", ":", "/", "/", "[">> }
Outputs == { None,
             <<"o", ".", "p", "d", "f">>,
             <<"o">>,
             <<>>,
             <<"[", "/", "x", "]", ".", "p", "d", "f">> }
StdoutTexts == { <<>>, <<"s", "\n">> }
StderrTexts == { <<>>, <<"w">>, <<"[", "/", "x", "]">> }
ExitCodes == 0..MaxExit

Init ==
    /\ url \in Urls
    /\ output_opt \in Outputs
    /\ debug \in BOOLEAN
    /\ wk_present \in BOOLEAN
    /\ pc = "start"
    /\ Idle

\* an exception other than typer.Exit leaves html_to_pdf: traceback, status 1
Escapes ==
    /\ uncaught' = TRUE
    /\ exit_code' = 1
    /\ pc' = "exited"

\* raise typer.Exit(code=code), or the normal return with code 0
Exits(code) ==
    /\ uncaught' = FALSE
    /\ exit_code' = code
    /\ pc' = "exited"

\* lines 148-154 without the raise: an invalid URL falls through
Validate_fallthrough ==
    /\ pc = "start"
    /\ valid' = validate_url(url)
    /\ IF ~validate_url(url) /\ console_print(InvalidUrlMarkup(url)) = <<>>
       THEN printed' = Append(printed, [kind |-> "invalid_url", text |-> url])
       ELSE printed' = printed
    /\ pc' = "resolve"
    /\ UNCHANGED <<argVars, procVars, now, output, gen_called, log, exc,
                   exit_code, uncaught>>

\* lines 148-154: configure logging, validate the URL
Validate ==
    /\ pc = "start"
    /\ valid' = validate_url(url)
    /\ IF validate_url(url)
       THEN /\ pc' = "resolve"
            /\ UNCHANGED <<printed, exit_code, uncaught>>
       ELSE IF console_print(InvalidUrlMarkup(url)) = <<>>
       THEN /\ printed' = Append(printed, [kind |-> "invalid_url", text |-> url])
            /\ Exits(1)
       ELSE /\ printed' = printed
            /\ Escapes
    /\ UNCHANGED <<argVars, procVars, now, output, gen_called, log, exc>>

\* lines 156-160 with the test of output dropped: a name is always generated
ResolveOutput_always_generates ==
    /\ pc = "resolve"
    /\ \E t \in Times :
        /\ now' = t
        /\ output' = generate_output_name(url, t)
        /\ gen_called' = TRUE
        /\ printed' = Append(printed, [kind |-> "info",
                                       text |-> generate_output_name(url, t)])
    /\ pc' = "invoke"
    /\ UNCHANGED <<argVars, procVars, valid, log, exc, exit_code, uncaught>>

\* lines 156-160: generate an output name when --output is absent
ResolveOutput ==
    /\ pc = "resolve"
    /\ IF output_opt = None
       THEN \E t \in Times :
              /\ now' = t
              /\ output' = generate_output_name(url, t)
              /\ gen_called' = TRUE
              /\ IF console_print(InfoMarkup(generate_output_name(url, t))) = <<>>
                 THEN /\ printed' = Append(printed,
                            [kind |-> "info",
                             text |-> generate_output_name(url, t)])
                      /\ pc' = "invoke"
                      /\ UNCHANGED <<exit_code, uncaught>>
                 ELSE /\ printed' = printed
                      /\ Escapes
       ELSE /\ output' = output_opt
            /\ pc' = "invoke"
            /\ UNCHANGED <<now, gen_called, printed, exit_code, uncaught>>
    /\ UNCHANGED <<argVars, procVars, valid, log, exc>>

\* lines 96-121: build the command, log it, create the child process
Invoke ==
    /\ pc = "invoke"
    /\ cmd' = BuildCmd(url, output)
    /\ log' = Emit(log, "DEBUG", Join(BuildCmd(url, output)))
    /\ IF wk_present
       THEN /\ launched' = launched + 1
            /\ child' = "running"
            /\ child_out' \in StdoutTexts
            /\ child_err' \in StderrTexts
            /\ child_status' \in ExitCodes
            /\ pc' = "communicate"
            /\ exc' = exc
       ELSE /\ exc' = ErrnoText
            /\ pc' = "except_generic"
            /\ UNCHANGED <<launched, child, child_out, child_err, child_status>>
    /\ UNCHANGED <<argVars, valid, now, output, gen_called, printed, exit_code,
                   uncaught, pipe_out, pipe_err, buf_out, buf_err, out_eof,
                   err_eof, returncode, stdout, stderr>>

handlerVars == <<pc, valid, now, output, gen_called, printed, log, exc,
                 exit_code, uncaught>>

\* the child writes one character to its stdout; it blocks on a full pipe
ChildWriteOut ==
    /\ child = "running"
    /\ child_out # <<>>
    /\ Len(pipe_out) < PipeCap
    /\ pipe_out' = Append(pipe_out, Head(child_out))
    /\ child_out' = Tail(child_out)
    /\ UNCHANGED <<argVars, handlerVars, launched, cmd, child, child_err,
                   child_status, pipe_err, buf_out, buf_err, out_eof, err_eof,
                   returncode, stdout, stderr>>

\* the child writes one character to its stderr; it blocks on a full pipe
ChildWriteErr ==
    /\ child = "running"
    /\ child_err # <<>>
    /\ Len(pipe_err) < PipeCap
    /\ pipe_err' = Append(pipe_err, Head(child_err))
    /\ child_err' = Tail(child_err)
    /\ UNCHANGED <<argVars, handlerVars, launched, cmd, child, child_out,
                   child_status, pipe_out, buf_out, buf_err, out_eof, err_eof,
                   returncode, stdout, stderr>>

\* the child has written everything and exits, which closes its pipe ends
ChildExit ==
    /\ child = "running"
    /\ child_out = <<>>
    /\ child_err = <<>>
    /\ child' = "exited"
    /\ UNCHANGED <<argVars, handlerVars, launched, cmd, child_out, child_err,
                   child_status, pipe_out, pipe_err, buf_out, buf_err, out_eof,
                   err_eof, returncode, stdout, stderr>>

\* communicate() reads what the stdout pipe holds, or sees its end of file
CommReadOut ==
    /\ pc = "communicate"
    /\ ~out_eof
    /\ \/ /\ pipe_out # <<>>
          /\ buf_out' = buf_out \o pipe_out
          /\ pipe_out' = <<>>
          /\ out_eof' = FALSE
       \/ /\ pipe_out = <<>>
          /\ child = "exited"
          /\ out_eof' = TRUE
          /\ UNCHANGED <<buf_out, pipe_out>>
    /\ UNCHANGED <<argVars, handlerVars, launched, cmd, child, child_out,
                   child_err, child_status, pipe_err, buf_err, err_eof,
                   returncode, stdout, stderr>>

\* communicate() reads what the stderr pipe holds, or sees its end of file
CommReadErr ==
    /\ pc = "communicate"
    /\ ~err_eof
    /\ \/ /\ pipe_err # <<>>
          /\ buf_err' = buf_err \o pipe_err
          /\ pipe_err' = <<>>
          /\ err_eof' = FALSE
       \/ /\ pipe_err = <<>>
          /\ child = "exited"
          /\ err_eof' = TRUE
          /\ UNCHANGED <<buf_err, pipe_err>>
    /\ UNCHANGED <<argVars, handlerVars, launched, cmd, child, child_out,
                   child_err, child_status, pipe_out, buf_out, out_eof,
                   returncode, stdout, stderr>>

\* communicate() that stops reading once stdout is at end of file
Drained_stdout_only == out_eof

\* communicate() reads until both streams are at end of file
Drained == out_eof /\ err_eof

\* communicate() reaps the child and returns the two captured texts
CommWait ==
    /\ pc = "communicate"
    /\ Drained
    /\ child = "exited"
    /\ returncode' = child_status
    /\ stdout' = buf_out
    /\ stderr' = buf_err
    /\ pc' = "logging"
    /\ UNCHANGED <<argVars, valid, now, output, gen_called, printed, log, exc,
                   exit_code, uncaught, launched, cmd, child, child_out,
                   child_err, child_status, pipe_out, pipe_err, buf_out,
                   buf_err, out_eof, err_eof>>

\* lines 125-131: log the captured texts, raise on a non-zero return code
LogAndCheck ==
    /\ pc = "logging"
    /\ log' = LET l1 == IF stdout # <<>>
                        THEN Emit(log, "INFO", Strip(stdout)) ELSE log
              IN  IF stderr # <<>>
                  THEN Emit(l1, "WARNING", Strip(stderr)) ELSE l1
    /\ pc' = IF returncode # 0 THEN "except_cpe" ELSE "success"
    /\ UNCHANGED <<argVars, procVars, valid, now, output, gen_called, printed,
                   exc, exit_code, uncaught>>

\* lines 164-166: report success; a MarkupError goes to the generic handler
Success ==
    /\ pc = "success"
    /\ IF console_print(SuccessMarkup(output)) = <<>>
       THEN /\ printed' = Append(printed, [kind |-> "success", text |-> output])
            /\ exc' = exc
            /\ Exits(0)
       ELSE /\ exc' = console_print(SuccessMarkup(output))
            /\ pc' = "except_generic"
            /\ UNCHANGED <<printed, exit_code, uncaught>>
    /\ UNCHANGED <<argVars, procVars, valid, now, output, gen_called, log>>

\* lines 167-170: report the renderer's failure, exit with its code
ExceptCalledProcessError ==
    /\ pc = "except_cpe"
    /\ IF console_print(WkErrorMarkup(stderr)) = <<>>
       THEN /\ printed' = Append(printed, [kind |-> "wk_error", text |-> stderr])
            /\ log' = Emit(log, "ERROR", stderr)
            /\ Exits(returncode)
       ELSE /\ UNCHANGED <<printed, log>>
            /\ Escapes
    /\ UNCHANGED <<argVars, procVars, valid, now, output, gen_called, exc>>

\* lines 171-174: report any other exception, exit with code 1
ExceptException ==
    /\ pc = "except_generic"
    /\ IF console_print(UnexpectedMarkup(exc)) = <<>>
       THEN /\ printed' = Append(printed, [kind |-> "unexpected", text |-> exc])
            /\ log' = Emit(log, "ERROR", exc)
            /\ Exits(1)
       ELSE /\ UNCHANGED <<printed, log>>
            /\ Escapes
    /\ UNCHANGED <<argVars, procVars, valid, now, output, gen_called, exc>>

Next ==
    \/ Validate
    \/ ResolveOutput
    \/ Invoke
    \/ ChildWriteOut
    \/ ChildWriteErr
    \/ ChildExit
    \/ CommReadOut
    \/ CommReadErr
    \/ CommWait
    \/ LogAndCheck
    \/ Success
    \/ ExceptCalledProcessError
    \/ ExceptException

Spec == Init /\ [][Next]_vars

\* the operating system keeps running the child, and the tool while it is
\* inside execute_wkhtmltopdf
FairSpec ==
    /\ Spec
    /\ WF_vars(ChildWriteOut) /\ WF_vars(ChildWriteErr) /\ WF_vars(ChildExit)
    /\ WF_vars(CommReadOut) /\ WF_vars(CommReadErr) /\ WF_vars(CommWait)
    /\ WF_vars(LogAndCheck)


(***************************************************************************)
(* Claims about validate_url and generate_output_name, under PureSpec.     *)
(***************************************************************************)
PdfSuffix == <<".", "p", "d", "f">>
IndexName == <<"i", "n", "d", "e", "x">>
HasSubstring(s, t) ==
    \E i \in 1..(Len(s) - Len(t) + 1) : SubSeq(s, i, i + Len(t) - 1) = t

\* the base name as it stands in a generated name that starts with domain
BaseOf(name, domain) == SubSeq(name, Len(domain) + 2, Len(name) - 20)

\* the last maximal slash-free stretch of a path that is not all slashes
LastSegment(path) ==
    LET e == CHOOSE i \in 1..Len(path) :
                path[i] # "/" /\ \A j \in (i+1)..Len(path) : path[j] = "/"
        b == IF \E i \in 1..e : path[i] = "/"
             THEN CHOOSE i \in 1..e :
                     path[i] = "/" /\ \A j \in (i+1)..e : path[j] # "/"
             ELSE 0
    IN  SubSeq(path, b + 1, e)

\* the segment the base name is made from, its extension stripped
Stripped(u) ==
    LET path == urlparse(u).path
    IN  IF \A i \in 1..Len(path) : path[i] = "/" THEN IndexName
        ELSE splitext_root(LastSegment(path))

\* s with every maximal run of characters outside Keep replaced by one "_"
CollapseRuns(s, Keep) ==
    LET K == {i \in 1..Len(s) : s[i] \in Keep \/ i = 1 \/ s[i-1] \in Keep}
        nth(k) == CHOOSE i \in K : Cardinality({j \in K : j < i}) = k - 1
    IN  [k \in 1..Cardinality(K) |->
            IF s[nth(k)] \in Keep THEN s[nth(k)] ELSE "_"]

NoAdjacentUnderscores(s) ==
    \A i \in 1..(Len(s) - 1) : ~(s[i] = "_" /\ s[i+1] = "_")

\* the URL cut before its query and fragment
WithoutQuery(u) == Before(Before(u, "#"), "?")

\* C5: validate_url(s) is true exactly when urlparse(s) succeeds with a
\* non-empty scheme and a non-empty network location; a string with no
\* colon (no scheme), a string with no "//" (no host) and a string urlparse
\* rejects with ValueError all give false.
C5_ValidateIffSchemeAndHost ==
    pc \in {"pure_validated", "pure_generated"} =>
        LET r == urlparse(url)
        IN  /\ valid = (~r.error /\ r.scheme # <<>> /\ r.netloc # <<>>)
            /\ (~Contains(url, ":") => ~valid)
            /\ (~HasSubstring(url, <<"/", "/">>) => ~valid)
            /\ (r.error => ~valid)

\* C5 witness: a URL with an upper-case scheme was accepted
C5_Witness ==
    /\ pc = "pure_validated"
    /\ valid
    /\ url[1] = "A"
    /\ urlparse(url).scheme = <<"a", "+">>

\* C6: for a URL validate_url accepted the generated name is
\* domain "_" base "_" YYYYMMDD_HHMMSS ".pdf" with domain the non-empty
\* network location; base is "index" when the path has no non-empty segment
\* and otherwise the last non-empty segment, extension stripped, sanitised.
C6_GeneratedNameForm ==
    pc = "pure_generated" =>
        LET r == urlparse(url)
            B == BaseOf(output, r.netloc)
            ts == SubSeq(output, Len(output) - 18, Len(output) - 4)
        IN  /\ r.netloc # <<>>
            /\ output = r.netloc \o <<"_">> \o B \o <<"_">> \o ts \o PdfSuffix
            /\ EndsWith(output, PdfSuffix)
            /\ StartsWith(output, r.netloc)
            /\ ts = strftime(now)
            /\ \A i \in 1..15 : IF i = 9 THEN ts[i] = "_" ELSE ts[i] \in Digits
            /\ ((\A i \in 1..Len(r.path) : r.path[i] = "/") => B = IndexName)
            /\ ((\E i \in 1..Len(r.path) : r.path[i] # "/") =>
                    B = re_sub(splitext_root(LastSegment(r.path))))

\* C6 witness: a name was generated from a path that ends in a slash and
\* whose last non-empty segment has an extension
C6_Witness ==
    /\ pc = "pure_generated"
    /\ LET path == urlparse(url).path
       IN  /\ Len(path) > 3
           /\ path[Len(path)] = "/"
           /\ \E i \in 1..Len(path) : path[i] # "/"
           /\ Contains(LastSegment(path), ".")
           /\ splitext_root(LastSegment(path)) # LastSegment(path)

\* C9 as stated: every maximal run of non-alphanumeric characters
\* (underscore included) of the stripped segment is one underscore of the
\* base name, so the base name has only alphanumerics and single,
\* non-adjacent underscores.
C9_Original ==
    pc = "pure_generated" =>
        LET B == BaseOf(output, urlparse(url).netloc)
        IN  /\ B = CollapseRuns(Stripped(url), Alnum)
            /\ \A i \in 1..Len(B) : B[i] \in Alnum \cup {"_"}
            /\ NoAdjacentUnderscores(B)

\* C9 amended: every maximal run of characters that are neither letters,
\* digits nor underscores becomes one underscore, underscores of the segment
\* are kept as they are (so underscores may be adjacent); the base name has
\* only alphanumerics and underscores, and is the base name of the URL
\* without its query and fragment.
C9_SanitisedBaseName ==
    pc = "pure_generated" =>
        LET B == BaseOf(output, urlparse(url).netloc)
        IN  /\ B = CollapseRuns(Stripped(url), Alnum \cup {"_"})
            /\ \A i \in 1..Len(B) : B[i] \in Alnum \cup {"_"}
            /\ B = BaseOf(generate_output_name(WithoutQuery(url), now),
                          urlparse(WithoutQuery(url)).netloc)

\* C9 witness: a segment with a run of two non-word characters next to an
\* underscore, and a query, went through the generator
C9_Witness ==
    /\ pc = "pure_generated"
    /\ Contains(url, "?")
    /\ LET S == Stripped(url)
       IN  \E i \in 1..(Len(S) - 2) :
              S[i] = "_" /\ ~IsWord(S[i+1]) /\ ~IsWord(S[i+2])


(***************************************************************************)
(* Claims about html_to_pdf and execute_wkhtmltopdf, under Spec/FairSpec.  *)
(***************************************************************************)
Printed(kind) == \E i \in 1..Len(printed) : printed[i].kind = kind
Logged(level) == \E i \in 1..Len(log) : log[i].level = level

\* C1: when url fails validate_url the invocation ends at once with exit
\* status 1, and no renderer process exists in any state of it.
C1_InvalidUrlExitsOneNoLaunch ==
    (pc # "start" /\ ~validate_url(url)) =>
        /\ pc = "exited"
        /\ exit_code = 1
        /\ launched = 0
        /\ child = "none"
        /\ cmd = <<>>

\* C1 witness: an invalid URL was reported and the tool exited with 1
C1_Witness ==
    /\ pc = "exited"
    /\ ~validate_url(url)
    /\ Printed("invalid_url")
    /\ exit_code = 1

\* C2: when the renderer ends with a non-zero exit code c the tool's exit
\* code is c and the success message is not printed.
C2_RendererExitCodePassedThrough ==
    (pc = "exited" /\ returncode # NoCode /\ returncode # 0) =>
        /\ exit_code = returncode
        /\ ~Printed("success")

\* C3: with a valid URL, when the renderer ends with exit code 0 the
\* invocation ends in success (success message printed, exit code 0)
\* whatever the captured standard error is.
C3_ZeroExitIsSuccess ==
    (pc = "exited" /\ returncode = 0) =>
        /\ exit_code = 0
        /\ Printed("success")

\* C4: with an explicit --output p the renderer's last argument is exactly
\* p and generate_output_name is never called; a generated name is used
\* only when --output is absent.
C4_ExplicitOutputUsedVerbatim ==
    /\ (output_opt # None => ~gen_called)
    /\ (pc \in {"invoke", "communicate", "logging", "success"}
            /\ output_opt # None => output = output_opt)
    /\ (cmd # <<>> /\ output_opt # None => Last(cmd) = output_opt)
    /\ (cmd # <<>> /\ output_opt = None =>
            gen_called /\ Last(cmd) = generate_output_name(url, now))

\* C4 witness: the renderer runs with a user-supplied path as last argument
C4_Witness ==
    /\ launched = 1
    /\ child = "running"
    /\ output_opt = <<"o">>
    /\ Last(cmd) = <<"o">>
    /\ ~gen_called

\* C7: no exception other than typer.Exit leaves html_to_pdf, whichever
\* step raised it; every failure ends with a printed message and an exit
\* code.
C7_NoExceptionEscapes ==
    pc = "exited" =>
        /\ ~uncaught
        /\ printed # <<>>

\* C8 as stated: the output path passed to the renderer is a non-empty
\* string ending in ".pdf", generated or user-supplied.
C8_Original ==
    launched > 0 =>
        /\ Last(cmd) # <<>>
        /\ EndsWith(Last(cmd), PdfSuffix)

\* C8 amended: a path generated by generate_output_name is passed to the
\* renderer as a non-empty string ending in ".pdf"; a path supplied with
\* --output is passed as it is, with no check of its form.
C8_GeneratedPathEndsInPdf ==
    launched > 0 =>
        IF gen_called
        THEN /\ Len(Last(cmd)) > Len(PdfSuffix)
             /\ EndsWith(Last(cmd), PdfSuffix)
        ELSE Last(cmd) = output_opt

\* C8 witness: the renderer runs on a generated path
C8_Witness ==
    /\ launched = 1
    /\ gen_called
    /\ output_opt = None
    /\ EndsWith(Last(cmd), PdfSuffix)

\* what the child wrote has all been read and the child has ended
C10_FullyDrained ==
    /\ child = "exited"
    /\ child_out = <<>> /\ child_err = <<>>
    /\ pipe_out = <<>> /\ pipe_err = <<>>
    /\ out_eof /\ err_eof

\* the exit code is read and the captured texts are logged only after that
C10_Safe ==
    /\ launched <= 1
    /\ (returncode # NoCode \/ Logged("INFO") \/ Logged("WARNING")
        \/ pc \in {"logging", "success", "except_cpe"}) =>
            (launched = 1 /\ C10_FullyDrained)

\* C10: in every interleaving of the child's writes and exit with the
\* reads of communicate(), the exit code is read and the log lines are
\* emitted only once both streams are drained and the child has ended; the
\* call, once the child is created, always comes to return (to the success
\* report) or raise (to the CalledProcessError handler); the renderer is
\* created at most once.
C10_DrainThenReturn ==
    /\ []C10_Safe
    /\ (pc = "communicate" ~> pc \in {"success", "except_cpe"})

\* C10 witness: communicate() returned a standard error longer than the
\* pipe, which the child could only write while the tool was reading
C10_Witness ==
    /\ pc = "logging"
    /\ Len(stderr) > PipeCap
    /\ stdout # <<>>

=============================================================================
